---- MODULE Spec2Model ----
(***************************************************************************)
(* Model of src/issues.rs: the Issues interface (get, list, iter) and the  *)
(* paginating iterator IssuesIter (new, more, next), run against a server  *)
(* that holds a fixed collection of N items and serves pages of at most P  *)
(* items.                                                                  *)
(***************************************************************************)
EXTENDS Integers, Sequences, FiniteSets, TLC

\* ---------------------------------------------------------------- bounds
MaxN == 3        \* largest collection held by the server
MaxP == 2        \* largest page size served by the server
MaxStart == 1    \* largest start_at a caller puts in its SearchOptions
MaxFail == 2     \* failed page fetches allowed during one iteration
MaxPulls == 6    \* pulls made on one iterator

\* ------------------------------------------------------- values and types
None == <<>>
Some(v) == <<v>>

Min(a, b) == IF a <= b THEN a ELSE b

Max(a, b) == IF a >= b THEN a ELSE b

Reverse(s) == [i \in 1..Len(s) |-> s[Len(s) + 1 - i]]

Front(s) == SubSeq(s, 1, Len(s) - 1)

Last(s) == s[Len(s)]

Errors == {"Transport", "Status"}

Outcomes == {"Ok"} \cup Errors

Boards == {"b1", "b2"}

IssueIds == {"X", "Y"}

OptNat(S) == {None} \cup {Some(n) : n \in S}

\* SearchOptions: the caller's filter and paging criteria.
SearchOptions ==
    [jql : {None, Some("q")},
     start_at : OptNat(0..MaxStart),
     max_results : OptNat(1..(MaxP + 1))]

\* as_builder().max_results(m).start_at(s).build(): a copy with the two
\* paging parameters overridden and everything else kept.
as_builder(o, m, s) == [o EXCEPT !.max_results = Some(m), !.start_at = Some(s)]

EmptyQuery == [jql |-> None, startAt |-> None, maxResults |-> None]

\* SearchOptions::serialize: the query parameters under their wire names,
\* or a failure when the options yield no query string.
serialize(o) ==
    IF o.jql = None /\ o.start_at = None /\ o.max_results = None
    THEN [ok |-> FALSE, val |-> EmptyQuery]
    ELSE [ok |-> TRUE,
          val |-> [jql |-> o.jql, startAt |-> o.start_at,
                   maxResults |-> o.max_results]]

VARIABLES
    N,              \* server: size of the collection
    P,              \* server: page size it serves (cap on maxResults)
    board,          \* the caller's Board (the iterator borrows it)
    search_options, \* the caller's SearchOptions (the iterator borrows it)
    phase,          \* "idle" | "iterating" | "failed" (Issues::iter outcome)
    results,        \* IssuesIter.results: the stored Paginated<Issue>
    lastOp,         \* the operation that ran last
    sent,           \* the HTTP requests the last operation issued
    ret,            \* the value the last operation returned
    yielded,        \* history: items returned by next, in order
    fetches,        \* history: list calls made by new/next, with outcome
    pageRecv,       \* history: values of the stored page as received
    term,           \* history: why a pull last returned None
    pulls           \* history: number of calls of next

vars == <<N, P, board, search_options, phase, results, lastOp, sent, ret,
          yielded, fetches, pageRecv, term, pulls>>

NoPage == [start_at |-> 0, max_results |-> 0, total |-> 0, values |-> <<>>]

\* The service: page of the collection selected by a query.  Items are
\* identified by their 1-based position in the collection.
ServerPage(q) ==
    LET s == IF q.startAt = None THEN 0 ELSE q.startAt[1]
        m == IF q.maxResults = None THEN P ELSE Min(q.maxResults[1], P)
        n == Max(Min(s + m, N) - s, 0)
    IN  [start_at |-> s, max_results |-> m, total |-> N,
         values |-> [i \in 1..n |-> s + i]]

\* Jira::get: one GET request; the deserialized body or the failure.
JiraGet(api, path, query, outcome, body) ==
    [sent |-> <<[method |-> "GET", api |-> api, path |-> path,
                 query |-> query, response |-> outcome]>>,
     result |-> IF outcome = "Ok"
                THEN [kind |-> "Ok", val |-> body]
                ELSE [kind |-> "Err", error |-> outcome]]

get_agile(id, outcome) ==
    JiraGet("agile", <<"/issue/", id>>, None, outcome, [id |-> id])

\* Issues::get
get(id, outcome) ==
    JiraGet("api", <<"/issue/", id>>, None, outcome, [id |-> id])

\* The creation payloads a caller submits (CreateIssue, by project key).
CreateIssues == {[fields |-> [project |-> "PA"]],
                 [fields |-> [project |-> "PB"]]}

\* The service's answer to a creation: id, key and self link of the issue.
Created(data) ==
    [id |-> "10000", key |-> <<data.fields.project, "-1">>,
     url |-> <<"/issue/", "10000">>]

\* Jira::post: one POST request carrying the payload; the deserialized
\* body or the failure.
JiraPost(api, path, data, outcome, body) ==
    [sent |-> <<[method |-> "POST", api |-> api, path |-> path,
                 query |-> None, response |-> outcome, body |-> data]>>,
     result |-> IF outcome = "Ok"
                THEN [kind |-> "Ok", val |-> body]
                ELSE [kind |-> "Err", error |-> outcome]]

\* create, sending the payload to the agile API
create_agile(data, outcome) ==
    JiraPost("agile", <<"/issue">>, data, outcome, Created(data))

\* Issues::create
create(data, outcome) ==
    JiraPost("api", <<"/issue">>, data, outcome, Created(data))

\* list, returning the serialization failure instead of sending
list_strict(b, options, outcome) ==
    LET path == <<"/board/", b, "/issue">>
        ser == serialize(options)
    IN  IF ser.ok
        THEN JiraGet("agile", path, Some(ser.val), outcome,
                     ServerPage(ser.val))
        ELSE [sent |-> <<>>,
              result |-> [kind |-> "Err", error |-> "MalformedOptions"]]

\* Issues::list
list(b, options, outcome) ==
    LET path == <<"/board/", b, "/issue">>
        ser == serialize(options)
        query_options == IF ser.ok THEN ser.val ELSE EmptyQuery
    IN  JiraGet("agile", path, Some(query_options), outcome,
                ServerPage(query_options))

more_strict(r) == (r.start_at + r.max_results) < r.total

more_start(r) == r.start_at <= r.total

\* IssuesIter::more
more(r) == (r.start_at + r.max_results) <= r.total

NoItem == [kind |-> "None"]

Item(v) == [kind |-> "Some", item |-> v]

pop_front(r) ==
    IF r.values = <<>>
    THEN [item |-> NoItem, rest |-> r]
    ELSE [item |-> Item(Head(r.values)),
          rest |-> [r EXCEPT !.values = Tail(r.values)]]

\* pop, returning the last element without removing it
pop_peek(r) ==
    IF r.values = <<>>
    THEN [item |-> NoItem, rest |-> r]
    ELSE [item |-> Item(Last(r.values)), rest |-> r]

\* Vec::pop on the stored page
pop(r) ==
    IF r.values = <<>>
    THEN [item |-> NoItem, rest |-> r]
    ELSE [item |-> Item(Last(r.values)),
          rest |-> [r EXCEPT !.values = Front(r.values)]]

next_start_same(r) == r.start_at

next_start_skip(r) == r.start_at + r.max_results + 1

\* The offset of the page after the stored one.
next_start(r) == r.start_at + r.max_results

next_options_keep(o, r) == [o EXCEPT !.start_at = Some(next_start(r))]

\* The options next passes to list: the iterator's options with the page
\* size and the offset taken from the stored page.
next_options(o, r) == as_builder(o, r.max_results, next_start(r))

\* next, storing a fetched page without popping from it
next_nopop(r, b, o, outcome) ==
    IF r.values # <<>>
    THEN [item |-> pop(r).item, results |-> pop(r).rest, board |-> b,
          search_options |-> o, sent |-> <<>>]
    ELSE IF more(r)
         THEN LET call == list(b, next_options(o, r), outcome)
              IN  IF call.result.kind = "Ok"
                  THEN [item |-> NoItem, results |-> call.result.val,
                        board |-> b, search_options |-> o,
                        sent |-> call.sent]
                  ELSE [item |-> NoItem, results |-> r, board |-> b,
                        search_options |-> o, sent |-> call.sent]
         ELSE [item |-> NoItem, results |-> r, board |-> b,
               search_options |-> o, sent |-> <<>>]

\* next, handing a failed fetch's error to the consumer
next_surface(r, b, o, outcome) ==
    IF r.values # <<>>
    THEN [item |-> pop(r).item, results |-> pop(r).rest, board |-> b,
          search_options |-> o, sent |-> <<>>]
    ELSE IF more(r)
         THEN LET call == list(b, next_options(o, r), outcome)
              IN  IF call.result.kind = "Ok"
                  THEN [item |-> pop(call.result.val).item,
                        results |-> pop(call.result.val).rest,
                        board |-> b, search_options |-> o,
                        sent |-> call.sent]
                  ELSE [item |-> call.result, results |-> r, board |-> b,
                        search_options |-> o, sent |-> call.sent]
         ELSE [item |-> NoItem, results |-> r, board |-> b,
               search_options |-> o, sent |-> <<>>]

\* next, dropping the stored page when the fetch fails
next_clear(r, b, o, outcome) ==
    IF r.values # <<>>
    THEN [item |-> pop(r).item, results |-> pop(r).rest, board |-> b,
          search_options |-> o, sent |-> <<>>]
    ELSE IF more(r)
         THEN LET call == list(b, next_options(o, r), outcome)
              IN  IF call.result.kind = "Ok"
                  THEN [item |-> pop(call.result.val).item,
                        results |-> pop(call.result.val).rest,
                        board |-> b, search_options |-> o,
                        sent |-> call.sent]
                  ELSE [item |-> NoItem, results |-> NoPage, board |-> b,
                        search_options |-> o, sent |-> call.sent]
         ELSE [item |-> NoItem, results |-> r, board |-> b,
               search_options |-> o, sent |-> <<>>]

\* next, fetching the following page as soon as the buffer runs empty
next_prefetch(r, b, o, outcome) ==
    IF r.values # <<>>
    THEN LET rest == pop(r).rest
             call == list(b, next_options(o, rest), outcome)
         IN  IF rest.values = <<>> /\ more(rest)
             THEN [item |-> pop(r).item,
                   results |-> IF call.result.kind = "Ok"
                               THEN call.result.val ELSE rest,
                   board |-> b, search_options |-> o, sent |-> call.sent]
             ELSE [item |-> pop(r).item, results |-> rest, board |-> b,
                   search_options |-> o, sent |-> <<>>]
    ELSE [item |-> NoItem, results |-> r, board |-> b,
          search_options |-> o, sent |-> <<>>]

\* IssuesIter::next: the item returned, the iterator's fields afterwards
\* and the requests issued.
next(r, b, o, outcome) ==
    IF r.values # <<>>
    THEN [item |-> pop(r).item, results |-> pop(r).rest, board |-> b,
          search_options |-> o, sent |-> <<>>]
    ELSE IF more(r)
         THEN LET call == list(b, next_options(o, r), outcome)
              IN  IF call.result.kind = "Ok"
                  THEN [item |-> pop(call.result.val).item,
                        results |-> pop(call.result.val).rest,
                        board |-> b, search_options |-> o,
                        sent |-> call.sent]
                  ELSE [item |-> NoItem, results |-> r, board |-> b,
                        search_options |-> o, sent |-> call.sent]
         ELSE [item |-> NoItem, results |-> r, board |-> b,
               search_options |-> o, sent |-> <<>>]

Failures == Cardinality({i \in 1..Len(fetches) : fetches[i].response # "Ok"})

Init ==
    /\ N \in 0..MaxN
    /\ P \in 1..MaxP
    /\ board \in Boards
    /\ search_options \in SearchOptions
    /\ phase = "idle"
    /\ results = NoPage
    /\ lastOp = "none"
    /\ sent = <<>>
    /\ ret = [kind |-> "Init"]
    /\ yielded = <<>>
    /\ fetches = <<>>
    /\ pageRecv = <<>>
    /\ term = "running"
    /\ pulls = 0

\* A caller invokes Issues::get.  Issues holds nothing but the client
\* (line 12), so the direct calls of get and list neither read nor write
\* an iterator; the caller makes them before it starts to iterate.
CallGet ==
    \E id \in IssueIds, outcome \in Outcomes :
        /\ phase = "idle"
        /\ lastOp' = "get"
        /\ sent' = get(id, outcome).sent
        /\ ret' = get(id, outcome).result
        /\ UNCHANGED <<N, P, board, search_options, phase, results, yielded,
                       fetches, pageRecv, term, pulls>>

\* A caller invokes Issues::create.
CallCreate ==
    \E data \in CreateIssues, outcome \in Outcomes :
        /\ phase = "idle"
        /\ lastOp' = "create"
        /\ sent' = create(data, outcome).sent
        /\ ret' = create(data, outcome).result
        /\ UNCHANGED <<N, P, board, search_options, phase, results, yielded,
                       fetches, pageRecv, term, pulls>>

\* A caller invokes Issues::list with its board and options.
CallList ==
    \E outcome \in Outcomes :
        /\ phase = "idle"
        /\ lastOp' = "list"
        /\ sent' = list(board, search_options, outcome).sent
        /\ ret' = list(board, search_options, outcome).result
        /\ UNCHANGED <<N, P, board, search_options, phase, results, yielded,
                       fetches, pageRecv, term, pulls>>

\* new, falling back to an empty page when the first fetch fails
new_default(b, o, outcome) ==
    LET call == list(b, o, outcome)
    IN  [made |-> TRUE,
         results |-> IF call.result.kind = "Ok" THEN call.result.val
                     ELSE NoPage,
         ret |-> [kind |-> "Ok", val |-> [iter |-> "IssuesIter"]],
         sent |-> call.sent]

\* new, always starting the iteration at offset 0
new_from_zero(b, o, outcome) ==
    LET call == list(b, [o EXCEPT !.start_at = Some(0)], outcome)
    IN  IF call.result.kind = "Ok"
        THEN [made |-> TRUE, results |-> call.result.val,
              ret |-> [kind |-> "Ok", val |-> [iter |-> "IssuesIter"]],
              sent |-> call.sent]
        ELSE [made |-> FALSE, results |-> NoPage, ret |-> call.result,
              sent |-> call.sent]

\* IssuesIter::new: the first fetch; the iterator exists only if it succeeds.
new(b, o, outcome) ==
    LET call == list(b, o, outcome)
    IN  IF call.result.kind = "Ok"
        THEN [made |-> TRUE, results |-> call.result.val,
              ret |-> [kind |-> "Ok", val |-> [iter |-> "IssuesIter"]],
              sent |-> call.sent]
        ELSE [made |-> FALSE, results |-> NoPage, ret |-> call.result,
              sent |-> call.sent]

\* A caller invokes Issues::iter with its board and options.
CallIter ==
    \E outcome \in Outcomes :
        LET it == new(board, search_options, outcome)
        IN  /\ phase = "idle"
            /\ lastOp' = "iter"
            /\ phase' = IF it.made THEN "iterating" ELSE "failed"
            /\ results' = it.results
            /\ sent' = it.sent
            /\ ret' = it.ret
            /\ fetches' = fetches \o it.sent
            /\ pageRecv' = it.results.values
            /\ UNCHANGED <<N, P, board, search_options, yielded, term, pulls>>

\* The consumer pulls: IssuesIter::next.
CallNext ==
    \E outcome \in Outcomes :
        LET step == next(results, board, search_options, outcome)
            fetched == step.sent # <<>>
            failed == fetched /\ step.sent[1].response # "Ok"
        IN  /\ phase = "iterating"
            /\ pulls < MaxPulls
            /\ failed => Failures < MaxFail
            /\ ~fetched => outcome = "Ok"
            /\ lastOp' = "next"
            /\ pulls' = pulls + 1
            /\ results' = step.results
            /\ board' = step.board
            /\ search_options' = step.search_options
            /\ sent' = step.sent
            /\ ret' = step.item
            /\ yielded' = IF step.item.kind = "Some"
                          THEN Append(yielded, step.item.item)
                          ELSE yielded
            /\ fetches' = fetches \o step.sent
            /\ pageRecv' = IF fetched /\ ~failed
                           THEN ServerPage(step.sent[1].query[1]).values
                           ELSE pageRecv
            /\ term' = IF step.item.kind = "Some" THEN term
                       ELSE IF failed
                            THEN (IF term = "natural" THEN term ELSE "failed")
                            ELSE "natural"
            /\ UNCHANGED <<N, P, phase>>

Next == CallGet \/ CallCreate \/ CallList \/ CallIter \/ CallNext

Spec == Init /\ [][Next]_vars

\* The consumer keeps pulling: a pull that can be made is made (every
\* pull counts in pulls, so a CallNext step is never a stuttering step).
\* The iteration alone, without the direct calls that precede it.
IterNext == CallIter \/ CallNext

\* A step that counts one more pull.  Only CallNext changes pulls, and
\* CallNext can be taken whenever an iterator exists and pulls < MaxPulls
\* (a successful outcome is always allowed), so the steps of Pull are the
\* steps of CallNext and Pull is enabled exactly when CallNext is.
Pull == phase = "iterating" /\ pulls < MaxPulls /\ pulls' = pulls + 1

FairSpec == Init /\ [][IterNext]_vars /\ WF_pulls(Pull)

\* ------------------------------------------------------------ properties
\* The offset the caller's options ask the iteration to start at.
CallerStart ==
    IF search_options.start_at = None THEN 0 ELSE search_options.start_at[1]

\* A pull has returned None with no fetch failing, and no fetch ever failed.
ExhaustedCleanly == phase = "iterating" /\ term = "natural" /\ Failures = 0

\* C1 as stated: iterating to the end yields at most N items, and exactly N
\* items when every fetch succeeds.
C1_AsStated ==
    /\ Len(yielded) <= N
    /\ ExhaustedCleanly => Len(yielded) = N

\* C1 (amended): iterating to the end yields at most N items under any
\* pattern of fetch failures; when every fetch succeeds it yields exactly the
\* items from the caller's starting offset on, N - start_at of them (N when
\* the options give no start_at or 0, none when start_at >= N).
C1_Exhaustion ==
    /\ Len(yielded) <= N
    /\ ExhaustedCleanly => Len(yielded) = Max(N - CallerStart, 0)

C1_Witness ==
    /\ ExhaustedCleanly
    /\ Len(fetches) >= 3
    /\ CallerStart = 1
    /\ Len(yielded) = 2

PageOf(i) == ServerPage(fetches[i].query[1])

\* The second fetch of the iteration failed, after a first one succeeded.
SecondFetchFailed ==
    /\ Len(fetches) = 2
    /\ fetches[1].response = "Ok"
    /\ fetches[2].response # "Ok"

\* C3: when the first page was fetched and the fetch of the second page
\* fails, the items yielded are exactly those of the first page in reverse
\* order, and the failing pull returns None, the value of natural exhaustion,
\* carrying no error.
C3_FailureSwallowed ==
    SecondFetchFailed =>
        /\ yielded = Reverse(PageOf(1).values)
        /\ lastOp = "next" => ret = NoItem

C3_Witness ==
    /\ SecondFetchFailed
    /\ lastOp = "next"
    /\ ret = NoItem
    /\ yielded = <<2, 1>>

\* C4 as stated: the fetches of one iterator are in strictly increasing
\* offset order; no offset is fetched twice.
C4_AsStated ==
    \A i, j \in 1..Len(fetches) :
        i < j => PageOf(i).start_at < PageOf(j).start_at

\* The latest successful fetch before the i-th.
LastOk(i) ==
    CHOOSE j \in 1..(i - 1) :
        /\ fetches[j].response = "Ok"
        /\ \A k \in (j + 1)..(i - 1) : fetches[k].response # "Ok"

\* C4 (amended): every fetch after the first requests start_at + max_results
\* of the most recently fetched page; a fetch that follows a successful one
\* is at a strictly greater offset, and an offset is requested again only
\* when the preceding fetch, at that same offset, failed.
C4_OffsetOrder ==
    \A i \in 2..Len(fetches) :
        /\ fetches[i].query[1].startAt
             = Some(PageOf(LastOk(i)).start_at + PageOf(LastOk(i)).max_results)
        /\ fetches[i - 1].response = "Ok"
             => PageOf(i).start_at > PageOf(i - 1).start_at
        /\ fetches[i - 1].response # "Ok"
             => PageOf(i).start_at = PageOf(i - 1).start_at

C4_Witness ==
    /\ Len(fetches) >= 4
    /\ fetches[2].response # "Ok"
    /\ fetches[3].response = "Ok"
    /\ fetches[4].response = "Ok"
    /\ PageOf(4).start_at > PageOf(3).start_at

\* C5: a pull that finds an item in the buffer issues no fetch, a pull that
\* finds the buffer empty issues at most one; and for a collection of three
\* pages, after construction and one pull that yielded an item, exactly one
\* fetch (the one of construction) has been issued.
C5_LazyFetch ==
    /\ [][pulls' = pulls + 1 =>
            /\ results.values # <<>> => (sent' = <<>> /\ fetches' = fetches)
            /\ Len(sent') <= 1
            /\ Len(fetches') <= Len(fetches) + 1]_vars
    /\ [](phase = "iterating" /\ pulls = 1 /\ Len(yielded) = 1
             /\ N > 2 * PageOf(1).max_results
          => Len(fetches) = 1)

C5_Witness ==
    /\ phase = "iterating"
    /\ pulls = 1
    /\ Len(yielded) = 1
    /\ N > 2 * PageOf(1).max_results
    /\ results.values = <<>>
    /\ Len(fetches) = 1

\* The number of items delivered so far from the stored page.
Delivered == Len(pageRecv) - Len(results.values)

\* C6: the items delivered from the stored page are the elements of that
\* page's values taken from the end backwards, and the elements not yet
\* delivered are the front of values.
C6_OrderInversion ==
    phase = "iterating" =>
        /\ Delivered >= 0
        /\ Delivered <= Len(yielded)
        /\ results.values = SubSeq(pageRecv, 1, Len(pageRecv) - Delivered)
        /\ SubSeq(yielded, Len(yielded) - Delivered + 1, Len(yielded))
             = Reverse(SubSeq(pageRecv, Len(pageRecv) - Delivered + 1,
                              Len(pageRecv)))

C6_Witness ==
    /\ phase = "iterating"
    /\ Len(pageRecv) = 2
    /\ Delivered = 2
    /\ pageRecv[1] # pageRecv[2]
    /\ yielded = <<pageRecv[2], pageRecv[1]>>

\* C7: when the first fetch fails, no iterator is produced (none is ever
\* pulled) and iter returns that fetch's error; an iterator exists only
\* after a successful first fetch.
C7_ConstructionFailure ==
    /\ (fetches # <<>> /\ fetches[1].response # "Ok") =>
            /\ phase = "failed"
            /\ results = NoPage
            /\ pulls = 0
            /\ Len(fetches) = 1
            /\ lastOp = "iter" =>
                   ret = [kind |-> "Err", error |-> fetches[1].response]
    /\ phase = "iterating" =>
            (fetches # <<>> /\ fetches[1].response = "Ok")

C7_Witness ==
    /\ phase = "failed"
    /\ lastOp = "iter"
    /\ ret = [kind |-> "Err", error |-> "Status"]
    /\ fetches[1].response = "Status"

\* C8: a fetch issued by a pull carries the caller's options with start_at
\* set to start_at + max_results of the stored page and max_results set to
\* the stored page's max_results, to the caller's board; and no pull changes
\* the options or the board the iterator holds.
C8_NextPageOptions ==
    [][pulls' = pulls + 1 =>
         /\ search_options' = search_options
         /\ board' = board
         /\ sent' # <<>> =>
              /\ sent'[1].path = <<"/board/", board, "/issue">>
              /\ sent'[1].query =
                   Some([jql |-> search_options.jql,
                         startAt |-> Some(results.start_at
                                          + results.max_results),
                         maxResults |-> Some(results.max_results)])]_vars

C8_Witness ==
    /\ lastOp = "next"
    /\ sent # <<>>
    /\ search_options.jql = Some("q")
    /\ search_options.max_results # None
    /\ search_options.max_results # sent[1].query[1].maxResults
    /\ search_options.start_at # sent[1].query[1].startAt
    /\ sent[1].query[1].jql = Some("q")

\* C9: when the options given to list do not serialize, list still issues
\* exactly one GET to /board/{board id}/issue of the agile API, with no query
\* parameter, and returns what that request returns.
C9_MalformedFallback ==
    (lastOp = "list" /\ ~serialize(search_options).ok) =>
        /\ Len(sent) = 1
        /\ sent[1].method = "GET"
        /\ sent[1].api = "agile"
        /\ sent[1].path = <<"/board/", board, "/issue">>
        /\ sent[1].query = Some(EmptyQuery)
        /\ ret = IF sent[1].response = "Ok"
                 THEN [kind |-> "Ok", val |-> ServerPage(EmptyQuery)]
                 ELSE [kind |-> "Err", error |-> sent[1].response]

C9_Witness ==
    /\ lastOp = "list"
    /\ ~serialize(search_options).ok
    /\ Len(sent) = 1
    /\ ret.kind = "Ok"
    /\ Len(ret.val.values) >= 2

\* C10: get issues exactly one GET to /issue/{id} of the core API, with no
\* retry, and returns the item on success and the request's failure
\* otherwise.
C10_SingleItemFetch ==
    lastOp = "get" =>
        /\ Len(sent) = 1
        /\ sent[1].method = "GET"
        /\ sent[1].api = "api"
        /\ \E id \in IssueIds :
              /\ sent[1].path = <<"/issue/", id>>
              /\ ret = IF sent[1].response = "Ok"
                       THEN [kind |-> "Ok", val |-> [id |-> id]]
                       ELSE [kind |-> "Err", error |-> sent[1].response]

C10_Witness ==
    /\ lastOp = "get"
    /\ sent[1].path = <<"/issue/", "X">>
    /\ sent[1].response = "Ok"
    /\ ret = [kind |-> "Ok", val |-> [id |-> "X"]]

\* C11: create issues exactly one POST to /issue of the core API carrying
\* the payload, with no retry, and returns an object with id, key and url on
\* success and the request's failure otherwise.
C11_Create ==
    lastOp = "create" =>
        /\ Len(sent) = 1
        /\ sent[1].method = "POST"
        /\ sent[1].api = "api"
        /\ sent[1].path = <<"/issue">>
        /\ sent[1].body \in CreateIssues
        /\ ret = IF sent[1].response = "Ok"
                 THEN [kind |-> "Ok", val |-> Created(sent[1].body)]
                 ELSE [kind |-> "Err", error |-> sent[1].response]
        /\ ret.kind = "Ok" => DOMAIN ret.val = {"id", "key", "url"}

C11_Witness ==
    /\ lastOp = "create"
    /\ sent[1].response = "Ok"
    /\ sent[1].body.fields.project = "PB"
    /\ ret.kind = "Ok"
    /\ ret.val.key = <<"PB", "-1">>

\* C12: a pull that finds the buffer empty issues a fetch exactly when
\* start_at + max_results <= total holds of the stored page; when it does
\* not hold, the pull issues no fetch and yields no item.
C12_MoreAvailable ==
    [][(pulls' = pulls + 1 /\ results.values = <<>>) =>
         /\ sent' # <<>>
              <=> results.start_at + results.max_results <= results.total
         /\ results.start_at + results.max_results > results.total
              => (sent' = <<>> /\ ret' = NoItem /\ fetches' = fetches)]_vars

C12_Witness ==
    /\ lastOp = "next"
    /\ sent # <<>>
    /\ sent[1].response = "Ok"
    /\ ret = NoItem
    /\ results.values = <<>>
    /\ results.start_at = results.total
    /\ results.total >= 2

\* The query of the caller's options as they serialize.
CallerQuery ==
    IF serialize(search_options).ok THEN serialize(search_options).val
    ELSE EmptyQuery

\* C13 as stated: construction performs exactly one fetch, and that fetch
\* requests offset 0 with the caller's page size, whatever the options.
C13_AsStated ==
    lastOp = "iter" =>
        /\ Len(sent) = 1
        /\ Len(fetches) = 1
        /\ PageOf(1).start_at = 0
        /\ sent[1].query[1].maxResults = search_options.max_results

\* C13 (amended): construction performs exactly one fetch, and that fetch
\* carries the caller's options unchanged: the caller's page size, and the
\* caller's start_at, so that it requests offset 0 only when the options
\* give no start_at or give 0.
C13_InitialFetch ==
    lastOp = "iter" =>
        /\ Len(sent) = 1
        /\ fetches = sent
        /\ sent[1].method = "GET"
        /\ sent[1].path = <<"/board/", board, "/issue">>
        /\ sent[1].query = Some(CallerQuery)
        /\ sent[1].query[1].maxResults = search_options.max_results
        /\ sent[1].query[1].startAt = search_options.start_at
        /\ PageOf(1).start_at = CallerStart

C13_Witness ==
    /\ lastOp = "iter"
    /\ phase = "iterating"
    /\ search_options.start_at = Some(1)
    /\ search_options.max_results = Some(1)
    /\ results.start_at = 1
    /\ Len(fetches) = 1

\* C14: a consumer that keeps pulling receives end-of-sequence: until the
\* first None every pull yielded an item, at most N of them, with at most
\* one fetch per item besides the first; and the first None does come,
\* whether or not a fetch fails.
C14_FiniteSequence ==
    /\ []((phase = "iterating" /\ term = "running") =>
            /\ pulls = Len(yielded)
            /\ Len(yielded) <= N
            /\ Len(fetches) <= Len(yielded) + 1)
    /\ [](Len(fetches) <= pulls + 1)
    /\ (phase = "iterating") ~> (term # "running")

C14_Witness ==
    /\ phase = "iterating"
    /\ term = "failed"
    /\ Len(yielded) = 2
    /\ Len(fetches) = 3
    /\ pulls = 3

\* C15: a pull whose fetch fails leaves the stored page (start_at,
\* max_results, total and the empty values), the board and the options as
\* they were; the stored page's start_at, max_results or total change only
\* in a pull whose fetch succeeded.
C15_UnchangedOnError ==
    [][pulls' = pulls + 1 =>
         /\ (sent' # <<>> /\ sent'[1].response # "Ok") =>
               /\ results' = results
               /\ results.values = <<>>
               /\ board' = board
               /\ search_options' = search_options
               /\ yielded' = yielded
         /\ [results' EXCEPT !.values = <<>>] # [results EXCEPT !.values = <<>>]
               => (sent' # <<>> /\ sent'[1].response = "Ok")]_vars

C15_Witness ==
    /\ lastOp = "next"
    /\ sent # <<>>
    /\ sent[1].response = "Transport"
    /\ results.values = <<>>
    /\ results.start_at = 1
    /\ results.total = 3
    /\ ret = NoItem

\* C16: every fetch after the first requests a start_at that does not
\* exceed the total reported by the most recently fetched page.
C16_NoFetchBeyondTotal ==
    \A i \in 2..Len(fetches) :
        /\ fetches[i].query[1].startAt # None
        /\ fetches[i].query[1].startAt[1] <= PageOf(LastOk(i)).total

C16_Witness ==
    /\ Len(fetches) >= 3
    /\ fetches[3].query[1].startAt = Some(N)
    /\ N >= 2

\* The page size of the iteration: the max_results the service reports.
PageSize == PageOf(1).max_results

\* C17 as stated: when every fetch succeeds, pulling to the first None
\* issues exactly floor(N / P) + 1 fetches, construction included.
C17_AsStated ==
    ExhaustedCleanly => Len(fetches) = (N \div PageSize) + 1

\* C17 (amended): when every fetch succeeds, pulling to the first None
\* issues exactly floor((N - s) / P) + 1 fetches, construction included,
\* where s is the start_at of the caller's options (0 when they give none),
\* and exactly 1 fetch when s > N; floor(N / P) + 1 when the iteration
\* starts at offset 0.
C17_FetchCount ==
    ExhaustedCleanly =>
        Len(fetches) = IF CallerStart > N THEN 1
                       ELSE ((N - CallerStart) \div PageSize) + 1

C17_Witness ==
    /\ ExhaustedCleanly
    /\ CallerStart = 0
    /\ N = 2
    /\ PageSize = 1
    /\ Len(fetches) = 3
    /\ PageOf(3).values = <<>>

\* C18: no item of the collection is yielded twice, whatever fetches fail.
C18_NoDuplicate ==
    \A i, j \in 1..Len(yielded) : i # j => yielded[i] # yielded[j]

C18_Witness ==
    /\ Failures = 2
    /\ Len(yielded) = 3
    /\ Len(fetches) >= 4
    /\ term = "natural"

\* The values of the pages fetched so far, each page reversed, in the order
\* the pages were fetched.
RECURSIVE ReversedPages(_)
ReversedPages(k) ==
    IF k = 0 THEN <<>>
    ELSE ReversedPages(k - 1)
           \o (IF fetches[k].response = "Ok"
               THEN Reverse(PageOf(k).values) ELSE <<>>)

\* C19: when every fetch succeeds, the items yielded, followed by what is
\* left of the stored page in delivery order, are the pages fetched, each
\* reversed, concatenated in fetch order (which is increasing offset order);
\* at the end the items yielded are that whole concatenation.
C19_CrossPageOrder ==
    (phase = "iterating" /\ Failures = 0) =>
        /\ yielded \o Reverse(results.values) = ReversedPages(Len(fetches))
        /\ \A i \in 2..Len(fetches) :
              PageOf(i).start_at > PageOf(i - 1).start_at

C19_Witness ==
    /\ ExhaustedCleanly
    /\ N = 3
    /\ PageSize = 2
    /\ Len(fetches) = 2
    /\ yielded = <<2, 1, 3>>

====
